---- MODULE Spec2Model ----
(***************************************************************************)
(* Vocabulary-quiz session driver of langtrainer (the browser script      *)
(* src/unnamed/part_000) together with the quiz server it talks to.        *)
(*                                                                         *)
(* The browser script is single threaded: every action below is one       *)
(* run-to-completion piece of a handler, from its entry (a click, a key,   *)
(* an interval callback, the arrival of a fetch response) to its next      *)
(* await or its end.  A request in flight is an element of net; the       *)
(* server answers the requests in any order and the responses arrive in   *)
(* any order.  The server (app.py) is not part of the sources; it is      *)
(* modelled from the specification (the Server* definitions).  The        *)
(* on-screen Greek keyboard (src/static/js/greek-keyboard.js) is modelled *)
(* on its own: its state is carried by trial in the keyboard              *)
(* specification.                                                          *)
(***************************************************************************)
EXTENDS Integers, Sequences, FiniteSets, TLC

VARIABLES
    state,      \* the script's `state` object (part_000:2-17)
    dom,        \* the DOM the script reads and writes
    intervals,  \* the browser's table of live setInterval handles
    net,        \* fetch requests in flight, with the continuation awaiting each
    storage,    \* localStorage[STORAGE_KEY].wordProgress
    sessions,   \* the server's session store
    hist,       \* history variables (observations used by the properties)
    trial       \* the arguments and the result of a pure operation applied
                \* on its own (the answer matcher, the score), else Null

vars == <<state, dom, intervals, net, storage, sessions, hist, trial>>

----------------------------------------------------------------------------
(* Bounds of the model *)

\* number of word pairs in the server's vocabulary
PoolSize == 2
\* largest time per question (seconds) the setup form offers
MaxTime == 2
\* largest number of fetch requests in flight at once in the exam
\* specification, and in the mastery specification
MaxInFlight == 2
MaxLedgerInFlight == 1
\* largest number of session-creation requests in one run of the exam
\* specification, and of the mastery specification
MaxSessions == 1
MaxLedgerSessions == 2
\* how far past the last question repeated next actions are followed
MaxOvershoot == 1
\* the same two bounds for the training specification, and for the retake
\* specification
MaxTrainingInFlight == 2
MaxTrainingSessions == 2
MaxRetakeInFlight == 1
MaxRetakeSessions == 4
\* the same two bounds for the double-start specification
MaxDoubleStartInFlight == 2
MaxDoubleStartSessions == 3
\* the same two bounds for the training-screen specification
MaxShownInFlight == 2
MaxShownSessions == 2
\* the same two bounds for the submission specification
MaxSubmitInFlight == 2
MaxSubmitSessions == 1
\* the same two bounds for the setup specification
MaxSetupInFlight == 1
MaxSetupSessions == 2
\* the longest correct answer the matcher is tried on, and the longest text
\* typed freely into answerInput (texts derived from the correct answer, such
\* as the answer itself, its parts, or these without accents, are typed too)
MaxAnswerLen == 5
MaxTypedLen == 1
\* the most questions of a session whose score is computed on its own
MaxQuestions == 10

(* Program constants *)
MAX_WORDS == 200
MIN_WORDS == 1

Null == 0

Directions == {"greek_to_bulgarian", "bulgarian_to_greek"}
Lessons == {1, 2}

----------------------------------------------------------------------------
(* Vocabulary: word pairs as the server serves them (greek, bulgarian as  *)
(* sequences of Unicode code points, and the lesson).  A word pair is     *)
(* named by its position in Vocabulary.                                   *)

Vocabulary ==
    << [greek |-> <<955, 941, 969, 957>>,        bulgarian |-> <<1083, 1098, 1074>>,            lesson |-> 1],
       [greek |-> <<955, 941, 947, 969>>,        bulgarian |-> <<1075, 1086, 1074, 1086, 1088, 1103>>, lesson |-> 2],
       [greek |-> <<954, 974, 957, 969, 968>>,   bulgarian |-> <<1082, 1086, 1084, 1072, 1088>>, lesson |-> 1],
       [greek |-> <<947, 961, 940, 966, 969>>,   bulgarian |-> <<1087, 1080, 1096, 1072>>,      lesson |-> 2],
       \* the second pair written without its accent, in capitals, and with
       \* punctuation and blanks
       [greek |-> <<955, 949, 947, 969>>,        bulgarian |-> <<1075, 1086, 1074, 1086, 1088, 1103>>, lesson |-> 2],
       [greek |-> <<923, 917, 915, 937>>,        bulgarian |-> <<1043, 1054, 1042, 1054, 1056, 1071>>, lesson |-> 2],
       [greek |-> <<955, 949, 947, 969, 46>>,    bulgarian |-> <<32, 1075, 1086, 1074, 1086, 1088, 1103>>, lesson |-> 2] >>

WordIds == 1..PoolSize

Min(a, b) == IF a < b THEN a ELSE b

Range(s) == {s[i] : i \in DOMAIN s}

\* all orderings of the finite set S
Perms(S) == {s \in [1..Cardinality(S) -> S] : Range(s) = S}

\* s without its i-th element
Drop(s, i) == [j \in 1..(Len(s) - 1) |-> IF j < i THEN s[j] ELSE s[j + 1]]

----------------------------------------------------------------------------
(* Word progress tracking (part_000:22-129) *)

\* \w of a JavaScript regular expression: [A-Za-z0-9_]
IsWordChar(c) == \/ c \in 48..57 \/ c \in 65..90 \/ c \in 97..122 \/ c = 95

\* [\wα-ωΑ-Ω] and [\wа-яА-Я]
KeptGreek(c) == IsWordChar(c) \/ c \in 945..969 \/ c \in 913..937
KeptBulgarian(c) == IsWordChar(c) \/ c \in 1072..1103 \/ c \in 1040..1071

\* String.prototype.toLowerCase on the characters the two classes keep
ToLower(c) ==
    IF c \in 65..90 \/ c \in 913..937 \/ c \in 1040..1071 THEN c + 32 ELSE c

RECURSIVE Clean(_, _)
Clean(s, greek) ==
    IF s = <<>> THEN <<>>
    ELSE LET c == Head(s)
             keep == IF greek THEN KeptGreek(c) ELSE KeptBulgarian(c)
         IN  (IF keep THEN <<ToLower(c)>> ELSE <<>>) \o Clean(Tail(s), greek)

\* `${lesson}_${cleanGreek}_${cleanBulgarian}` (lessons are one digit here)
createWordKey(greek, bulgarian, lesson) ==
    <<48 + lesson, 95>> \o Clean(greek, TRUE) \o <<95>> \o Clean(bulgarian, FALSE)

\* const wordKey = createWordKey(greek, bulgarian, lesson), for each pair of
\* the vocabulary
wordKey ==
    [w \in DOMAIN Vocabulary |->
        createWordKey(Vocabulary[w].greek, Vocabulary[w].bulgarian, Vocabulary[w].lesson)]

\* a progress key without the direction: `${lesson}_${wordKey}`
progressKey_NoDirection(w, direction) == <<"", Vocabulary[w].lesson, wordKey[w]>>

\* `${direction}_${lesson}_${wordKey}`
progressKey(w, direction) == <<direction, Vocabulary[w].lesson, wordKey[w]>>

\* the entry markWordCorrect / saveQuizProgress store (lastSeen left out)
ProgressEntry(w, direction) ==
    [word |-> w, lesson |-> Vocabulary[w].lesson, direction |-> direction, correct |-> TRUE]

getCorrectWordsForLessons(store, lessons, direction) ==
    {store[k].word : k \in {k \in DOMAIN store :
        /\ store[k].correct
        /\ store[k].direction = direction
        /\ store[k].lesson \in lessons}}

\* markWordCorrect: the entry of the pair is created or overwritten
markWordCorrect(store, w, direction) ==
    LET key == progressKey(w, direction)
    IN  [k \in DOMAIN store \cup {key} |->
            IF k = key THEN ProgressEntry(w, direction) ELSE store[k]]

isWordCorrect(store, w, direction) ==
    /\ progressKey(w, direction) \in DOMAIN store
    /\ store[progressKey(w, direction)].correct

\* resetProgress that does not look at the direction of an entry
resetProgress_AnyDirection(store, lessons, direction) ==
    LET keysToDelete == {k \in DOMAIN store : store[k].lesson \in lessons}
    IN  [k \in DOMAIN store \ keysToDelete |-> store[k]]

\* resetProgress: the entries of the lessons and the direction are deleted
resetProgress(store, lessons, direction) ==
    LET keysToDelete == {k \in DOMAIN store :
                            store[k].lesson \in lessons /\ store[k].direction = direction}
    IN  [k \in DOMAIN store \ keysToDelete |-> store[k]]

EmptyStore == [k \in {} |-> Null]

----------------------------------------------------------------------------
(* The world a handler of the script runs in.  A handler is an operator   *)
(* from worlds to worlds, so that a handler calling another (submitAnswer *)
(* calling stopTimer, displayQuestion calling startTimer) is composition. *)

World ==
    [state |-> state, dom |-> dom, intervals |-> intervals, net |-> net,
     storage |-> storage, hist |-> hist]

InitState ==
    [sessionId |-> Null, questions |-> <<>>, currentIndex |-> 0, answers |-> <<>>,
     mode |-> "exam", trainingCompleted |-> FALSE, wordPairs |-> <<>>,
     wasTrainingSession |-> FALSE, timePerQuestion |-> MaxTime,
     timeRemaining |-> MaxTime, timerInterval |-> Null, selectedLessons |-> Lessons]

\* screen: the screen showScreen made active; submitBtn: the handler bound to
\* submitBtn.onclick; inputDisabled: answerInput.disabled; retake: whether
\* retakeSection is displayed; direction: the value of the direction select
InitDom ==
    [screen |-> "setupScreen", submitBtn |-> "submit", inputDisabled |-> FALSE,
     retake |-> FALSE, direction |-> "greek_to_bulgarian"]

\* cd observes the countdown of the question displayed last: d its time per
\* question, ticks the interval callbacks run since, expired the expiries
\* (automatic submissions) since, manual whether the caller pressed submit
\* or restart since, open whether no submission was sent for it yet.
\* save observes the last saveQuizProgress: written the words it stored as
\* mastered, full the words whose answer the session store graded full.
\* mastered observes the pairs <<direction, word>> a summary reported full.
\* watch names the observations a specification records ("countdown" for
\* cd, "mastery" for save and mastered); creates counts the session-creation
\* requests sent, maxCreates bounds them and maxInFlight the requests in flight;
\* issued counts the session ids the server has handed out.
\* summarised observes the summary displayed last (watch "summary"): the id
\* and the word pairs of the session it is the summary of.
\* training observes the training screen (watch "training"): the word whose
\* prompt is in trainingPrompt and the word whose answer is in trainingAnswer
\* (Null: none, ErrorLoadingAnswer: the text '(Error loading answer)').
\* call observes the handler the caller entered last, with its arguments
\* (watch "calls"); turn tells a call from the same call made again.
InitHist(watch, maxCreates, maxInFlight) ==
    [watch |-> watch,
     maxCreates |-> maxCreates,
     maxInFlight |-> maxInFlight,
     creates |-> 0,
     issued |-> 0,
     cd |-> [open |-> FALSE, d |-> 0, ticks |-> 0, expired |-> 0, manual |-> FALSE],
     save |-> [done |-> FALSE, written |-> {}, full |-> {}],
     mastered |-> {},
     summarised |-> [sid |-> Null, pool |-> {}],
     training |-> [prompt |-> Null, answer |-> Null],
     call |-> [fn |-> "init", args |-> <<>>, turn |-> 0]]

\* field cd of the observations set to value, when the countdown is watched;
\* what no property reads any more is forgotten: the expiries once the caller
\* has acted, and the countdown of a question that is closed
ObserveCountdown(w, value) ==
    IF "countdown" \notin w.hist.watch THEN w
    ELSE [w EXCEPT !.hist.cd =
            IF value.manual /\ ~value.open
            THEN [open |-> FALSE, d |-> 0, ticks |-> 0, expired |-> 0, manual |-> TRUE]
            ELSE IF value.manual THEN [value EXCEPT !.expired = 0]
            ELSE value]

ErrorLoadingAnswer == -1

\* fields of training set, when the training screen is watched
ObserveTrainingPrompt(w, word) ==
    IF "training" \notin w.hist.watch THEN w
    ELSE [w EXCEPT !.hist.training.prompt = word]

ObserveTrainingAnswer(w, word) ==
    IF "training" \notin w.hist.watch THEN w
    ELSE [w EXCEPT !.hist.training.answer = word]

\* field call of the observations, when the calls are watched
ObserveCall(w, fn, args) ==
    IF "calls" \notin w.hist.watch THEN w
    ELSE [w EXCEPT !.hist.call = [fn |-> fn, args |-> args, turn |-> 1 - @.turn]]

----------------------------------------------------------------------------
(* Timer functions (part_000:563-615) *)

\* the handle setInterval returns: one no live interval and no variable holds
NewHandle(w) ==
    CHOOSE h \in 1..(Cardinality(w.intervals) + 2) :
        h \notin w.intervals /\ h # w.state.timerInterval

\* clearInterval(handle)
clearInterval(w, handle) == [w EXCEPT !.intervals = @ \ {handle}]

\* stopTimer that forgets the handle and leaves the interval alive
stopTimer_NoClear(w) == [w EXCEPT !.state.timerInterval = Null]

stopTimer(w) ==
    IF w.state.timerInterval # Null
    THEN [clearInterval(w, w.state.timerInterval) EXCEPT !.state.timerInterval = Null]
    ELSE w

\* startTimer that does not clear the interval still running
startTimer_NoClear(w) ==
    LET h == NewHandle(w)
    IN  [w EXCEPT !.state.timeRemaining = w.state.timePerQuestion,
                  !.state.timerInterval = h,
                  !.intervals = @ \cup {h}]

startTimer(w) ==
    LET w1 == IF w.state.timerInterval # Null
              THEN clearInterval(w, w.state.timerInterval)
              ELSE w
        h == NewHandle(w1)
    IN  [w1 EXCEPT !.state.timeRemaining = w1.state.timePerQuestion,
                   !.state.timerInterval = h,
                   !.intervals = @ \cup {h}]

\* the test of the interval callback off by one: state.timeRemaining < 0
TimeIsUp_Late(remaining) == remaining < 0

\* the test of the interval callback: state.timeRemaining <= 0
TimeIsUp(remaining) == remaining <= 0

----------------------------------------------------------------------------
(* Exam questions (part_000:893-1005) *)

Send(w, msg) == [w EXCEPT !.net = Append(@, msg)]

\* what the caller may have typed into answerInput: nothing, blanks, or an
\* answer that is exactly right, right up to diacritics, or wrong for the
\* question it is graded against
Inputs == {"", " ", "exact", "accent", "wrong"}

\* String.prototype.trim
Trim(text) == IF text = " " THEN "" ELSE text

\* displayQuestion that also asks the server for the literal answer
displayQuestion_Fetches(w) ==
    LET w1 == ObserveCountdown([w EXCEPT !.dom.submitBtn = "submit"],
                               [open |-> TRUE, d |-> w.state.timePerQuestion,
                                ticks |-> 0, expired |-> 0, manual |-> FALSE])
    IN  Send(startTimer(w1),
             [kind |-> "question", done |-> FALSE,
              req |-> [sid |-> w.state.sessionId, idx |-> w.state.currentIndex],
              cont |-> [fn |-> "fetchCorrectAnswer"],
              resp |-> [ok |-> FALSE]])

displayQuestion(w) ==
    LET w1 == ObserveCountdown([w EXCEPT !.dom.submitBtn = "submit"],
                               [open |-> TRUE, d |-> w.state.timePerQuestion,
                                ticks |-> 0, expired |-> 0, manual |-> FALSE])
    IN  startTimer(w1)

\* submitAnswer that leaves the timer stopped when there is nothing to send
submitAnswer_NoRestart(w, isTimeout, input) ==
    LET w1 == stopTimer(w)
        answer == IF isTimeout THEN "" ELSE Trim(input)
    IN  IF answer = "" /\ ~isTimeout
        THEN w1
        ELSE LET w2 == Send(w1, [kind |-> "answer", done |-> FALSE,
                                 req |-> [sid |-> w1.state.sessionId,
                                          idx |-> w1.state.currentIndex,
                                          answer |-> answer],
                                 cont |-> [isTimeout |-> isTimeout],
                                 resp |-> [ok |-> FALSE]])
             IN  ObserveCountdown(w2, [w2.hist.cd EXCEPT !.open = FALSE])

submitAnswer(w, isTimeout, input) ==
    LET w1 == stopTimer(w)
        answer == IF isTimeout THEN "" ELSE Trim(input)
    IN  IF answer = "" /\ ~isTimeout
        THEN startTimer(w1)
        ELSE LET w2 == Send(w1, [kind |-> "answer", done |-> FALSE,
                                 req |-> [sid |-> w1.state.sessionId,
                                          idx |-> w1.state.currentIndex,
                                          answer |-> answer],
                                 cont |-> [isTimeout |-> isTimeout],
                                 resp |-> [ok |-> FALSE]])
             IN  ObserveCountdown(w2, [w2.hist.cd EXCEPT !.open = FALSE])

\* handleTimeout that moves on to the next question by itself
handleTimeout_Advances(w) ==
    [submitAnswer(stopTimer(w), TRUE, "") EXCEPT !.state.currentIndex = @ + 1]

handleTimeout(w) == submitAnswer(stopTimer(w), TRUE, "")

\* the setInterval callback of startTimer
timerCallback(w) ==
    LET w1 == ObserveCountdown([w EXCEPT !.state.timeRemaining = @ - 1],
                               [w.hist.cd EXCEPT !.ticks = Min(@ + 1, w.hist.cd.d + 1)])
    IN  IF TimeIsUp(w1.state.timeRemaining)
        THEN LET w2 == handleTimeout(w1)
             IN  ObserveCountdown(w2, [w2.hist.cd EXCEPT !.expired = Min(@ + 1, 2)])
        ELSE w1

\* displayFeedback only disables the input (the rest is rendering and sound)
displayFeedback(w, result, wasTimeout) == [w EXCEPT !.dom.inputDisabled = TRUE]

\* submitAnswer that marks the word mastered as soon as its answer is graded
submitAnswerResponse_Marks(w, result, isTimeout) ==
    LET w1 == displayFeedback(w, result, isTimeout)
        k == progressKey(w.state.wordPairs[w.state.currentIndex + 1], w.dom.direction)
    IN  [w1 EXCEPT !.state.answers = Append(@, result),
                   !.dom.submitBtn = "next",
                   !.storage = IF w.state.currentIndex < Len(w.state.wordPairs)
                                  /\ "correct" \in DOMAIN result
                                  /\ result.correct /\ ~result.partial_credit
                               THEN [k2 \in DOMAIN @ \cup {k} |->
                                       IF k2 = k
                                       THEN ProgressEntry(
                                              w.state.wordPairs[w.state.currentIndex + 1],
                                              w.dom.direction)
                                       ELSE @[k2]]
                               ELSE @]

\* submitAnswer after its await: the response body is pushed as it is
submitAnswerResponse(w, result, isTimeout) ==
    LET w1 == displayFeedback(w, result, isTimeout)
    IN  [w1 EXCEPT !.state.answers = Append(@, result),
                   !.dom.submitBtn = "next"]

\* a catch of submitAnswer that lets the caller move on
submitAnswerCatch_Next(w) == [w EXCEPT !.dom.submitBtn = "next"]

\* the catch of submitAnswer: alert('Failed to submit answer: ...')
submitAnswerCatch(w) == w

showSummary(w) ==
    Send(w, [kind |-> "summary", done |-> FALSE,
             req |-> [sid |-> w.state.sessionId],
             cont |-> [fn |-> "showSummary"],
             resp |-> [ok |-> FALSE]])

nextQuestion(w) ==
    LET w1 == [w EXCEPT !.dom.inputDisabled = FALSE,
                        !.state.currentIndex = @ + 1]
    IN  IF w1.state.currentIndex < Len(w1.state.questions)
        THEN displayQuestion(w1)
        ELSE showSummary(w1)

----------------------------------------------------------------------------
(* Starting a session and the training phase (part_000:617-866) *)

\* the words of the selected lessons, as the words-count shown in the form
AvailableWords(lessons) == Cardinality({v \in WordIds : Vocabulary[v].lesson \in lessons})

CreateRequest(direction, count, wordPairs, tpq, lessons, useAllWords, exclude, cont) ==
    [kind |-> "create", done |-> FALSE,
     req |-> [direction |-> direction, count |-> count, word_pairs |-> wordPairs,
              time_per_question |-> tpq, selected_lessons |-> lessons,
              use_all_words |-> useAllWords, exclude_correct_words |-> exclude],
     cont |-> cont,
     resp |-> [ok |-> FALSE]]

\* the count startSession sends, or 0 when it returns before sending a request
\* (count 0 stands for an input that does not parse as a number)
RequestCount(count, useAllWords, availableWords) ==
    IF useAllWords
    THEN (IF count < 1 THEN 1 ELSE count)
    ELSE IF count < MIN_WORDS THEN 0
         ELSE IF availableWords = 0 THEN 0
         ELSE Min(Min(count, MAX_WORDS), availableWords)

\* startSession up to its fetch
startSession(w, sessionMode, count, timePerQuestion, useAllWords) ==
    LET availableWords == AvailableWords(w.state.selectedLessons)
        sent == RequestCount(count, useAllWords, availableWords)
        excludeWords == getCorrectWordsForLessons(w.storage, w.state.selectedLessons,
                                                  w.dom.direction)
    IN  IF w.state.selectedLessons = {} \/ sent = 0
        THEN w
        ELSE Send([w EXCEPT !.state.timePerQuestion = timePerQuestion,
                            !.hist.creates = @ + 1],
                  CreateRequest(w.dom.direction, sent, <<>>, timePerQuestion,
                                w.state.selectedLessons, useAllWords, excludeWords,
                                [fn |-> "startSession", sessionMode |-> sessionMode]))

fetchCorrectAnswer(w) ==
    Send(w, [kind |-> "question", done |-> FALSE,
             req |-> [sid |-> w.state.sessionId, idx |-> w.state.currentIndex],
             cont |-> [fn |-> "fetchCorrectAnswer"],
             resp |-> [ok |-> FALSE]])

\* fetchCorrectAnswer after its await: trainingAnswer.textContent =
\* data.correct_answer (an error body has none, and the text is empty)
fetchCorrectAnswerResponse(w, req, data) ==
    ObserveTrainingAnswer(w, IF data.ok THEN data.body.correct_answer ELSE Null)

\* the catch of fetchCorrectAnswer
fetchCorrectAnswerCatch(w) == ObserveTrainingAnswer(w, ErrorLoadingAnswer)

\* trainingPrompt shows the prompt of the current question; trainingAnswer
\* is left as it is until the response of fetchCorrectAnswer
displayTrainingWord(w) ==
    fetchCorrectAnswer(
        IF "training" \in w.hist.watch
        THEN ObserveTrainingPrompt(w, w.state.questions[w.state.currentIndex + 1])
        ELSE w)

\* startSession after its await
startSessionResponse(w, data, sessionMode) ==
    IF ~data.ok
    THEN w
    ELSE LET w1 == [w EXCEPT !.state.sessionId = data.session_id,
                             !.state.questions = data.questions,
                             !.state.wordPairs = data.word_pairs,
                             !.state.timePerQuestion = data.time_per_question,
                             !.state.currentIndex = 0,
                             !.state.answers = <<>>,
                             !.state.trainingCompleted = FALSE,
                             !.state.wasTrainingSession = (sessionMode = "training")]
         IN  IF sessionMode = "training"
             THEN displayTrainingWord([w1 EXCEPT !.state.mode = "training",
                                                 !.dom.screen = "trainingScreen"])
             ELSE displayQuestion([w1 EXCEPT !.state.mode = "exam",
                                             !.dom.screen = "quizScreen"])

\* startQuizAfterTraining that lets the server draw the words anew
startQuizAfterTraining_NoPairs(w) ==
    Send([w EXCEPT !.hist.creates = @ + 1],
         CreateRequest(w.dom.direction, Len(w.state.wordPairs), <<>>,
                       w.state.timePerQuestion, w.state.selectedLessons, FALSE, {},
                       [fn |-> "startQuizAfterTraining", sessionMode |-> "exam"]))

startQuizAfterTraining(w) ==
    Send([w EXCEPT !.hist.creates = @ + 1],
         CreateRequest(w.dom.direction, Len(w.state.wordPairs), w.state.wordPairs,
                       w.state.timePerQuestion, w.state.selectedLessons, FALSE, {},
                       [fn |-> "startQuizAfterTraining", sessionMode |-> "exam"]))

\* startQuizAfterTraining after its await: the body is used without a look at
\* response.ok; an error body has none of the fields, and displayQuestion then
\* throws on state.questions, which the catch reports
startQuizAfterTrainingResponse(w, data) ==
    IF ~data.ok
    THEN [w EXCEPT !.state.sessionId = Null,
                   !.state.questions = <<>>,
                   !.state.wordPairs = <<>>,
                   !.state.currentIndex = 0,
                   !.state.answers = <<>>,
                   !.dom.screen = "quizScreen"]
    ELSE displayQuestion([w EXCEPT !.state.sessionId = data.session_id,
                                   !.state.questions = data.questions,
                                   !.state.wordPairs = data.word_pairs,
                                   !.state.timePerQuestion = data.time_per_question,
                                   !.state.currentIndex = 0,
                                   !.state.answers = <<>>,
                                   !.dom.screen = "quizScreen"])

startExam(w) ==
    startQuizAfterTraining([w EXCEPT !.state.trainingCompleted = TRUE,
                                     !.state.currentIndex = 0,
                                     !.state.answers = <<>>])

nextTrainingWord(w) ==
    LET w1 == [w EXCEPT !.state.currentIndex = @ + 1]
    IN  IF w1.state.currentIndex < Len(w1.state.questions)
        THEN displayTrainingWord(w1)
        ELSE startExam(w1)

skipToExam(w) == startExam(w)

----------------------------------------------------------------------------
(* Summary, progress, retake and restart (part_000:1007-1181) *)

\* answerResult.correct === true && !answerResult.partial_credit, for an
\* element of state.answers: a graded result, an error body, or null
wasFullyCorrect(answerResult) ==
    /\ "correct" \in DOMAIN answerResult
    /\ answerResult.correct = TRUE
    /\ ~answerResult.partial_credit

\* the positions of state.wordPairs saveQuizProgress stores as mastered
MasteredPositions(st) ==
    {i \in 1..Len(st.wordPairs) :
        /\ Vocabulary[st.wordPairs[i]].lesson # 0
        /\ i <= Len(st.answers)
        /\ "null" \notin DOMAIN st.answers[i]
        /\ wasFullyCorrect(st.answers[i])}

\* saveQuizProgress that keeps only the entries of the words it marks
SavedStore_OnlyMarked(store, st, direction) ==
    LET marked == {st.wordPairs[i] : i \in MasteredPositions(st)}
    IN  [k \in {progressKey(v, direction) : v \in marked} |->
            ProgressEntry(CHOOSE v \in marked : progressKey(v, direction) = k, direction)]

\* wordProgress after the forEach of saveQuizProgress
SavedStore(store, st, direction) ==
    LET marked == {st.wordPairs[i] : i \in MasteredPositions(st)}
        keys == {progressKey(v, direction) : v \in marked}
    IN  [k \in DOMAIN store \cup keys |->
            IF k \in keys
            THEN ProgressEntry(CHOOSE v \in marked : progressKey(v, direction) = k,
                               direction)
            ELSE store[k]]

\* the words of the attempt the session store holds a full verdict for
StoreFull(sess, st) ==
    IF st.sessionId \notin DOMAIN sess THEN {}
    ELSE LET s == sess[st.sessionId]
         IN  {s.wordPairs[i] : i \in {i \in 1..Len(s.answers) : s.answers[i].correct}}

saveQuizProgress(w, sess) ==
    [w EXCEPT !.storage = SavedStore(w.storage, w.state, w.dom.direction),
              !.hist.save =
                  IF "mastery" \in w.hist.watch
                  THEN [done |-> TRUE,
                        written |-> {w.state.wordPairs[i] : i \in MasteredPositions(w.state)},
                        full |-> StoreFull(sess, w.state)]
                  ELSE @]

\* whether showSummary displays retakeSection
RetakeOffered(st, summary) ==
    /\ st.wasTrainingSession
    /\ summary.score_percentage < 100
    /\ Len(st.wordPairs) > 0

\* showSummary after its await; an error body has no incorrect_words, reading
\* its length throws after saveQuizProgress ran, and the catch reports it
showSummaryResponse(w, summary, sess, sid) ==
    LET w1 == saveQuizProgress(w, sess)
    IN  IF ~summary.ok
        THEN w1
        ELSE [w1 EXCEPT !.dom.retake = RetakeOffered(w1.state, summary),
                        !.dom.screen = "summaryScreen",
                        !.hist.summarised =
                            IF "summary" \in w.hist.watch
                            THEN [sid |-> sid, pool |-> Range(sess[sid].wordPairs)]
                            ELSE @,
                        !.hist.mastered =
                            IF "mastery" \in w.hist.watch
                            THEN @ \cup {<<sess[sid].direction, v>> :
                                            v \in StoreFull(sess, [sessionId |-> sid])}
                            ELSE @]

retakeExam(w) ==
    startQuizAfterTraining(
        [w EXCEPT !.state.answers = [i \in 1..Len(w.state.wordPairs) |-> [null |-> TRUE]],
                  !.state.wasTrainingSession = TRUE])

restartQuiz(w) ==
    [stopTimer(w) EXCEPT !.dom.screen = "setupScreen",
                         !.state.sessionId = Null,
                         !.state.questions = <<>>,
                         !.state.currentIndex = 0,
                         !.state.answers = <<>>,
                         !.state.trainingCompleted = FALSE,
                         !.state.mode = "exam",
                         !.state.wordPairs = <<>>]

\* resetAllProgress: localStorage.removeItem(STORAGE_KEY)
resetAllProgress(w) ==
    ObserveCall([w EXCEPT !.storage = EmptyStore, !.hist.mastered = {}],
                "resetAllProgress", [matched |-> DOMAIN w.storage # {}])

----------------------------------------------------------------------------
(* The quiz server, from the specification (sections 4.2, 4.3, 6, 7).     *)
(* sessions holds the sessions some request in flight or the script can   *)
(* still name: a session no one holds the id of is never looked up again. *)

\* the verdict of the answer matcher for the answers the model types
ServerGrade(answer) ==
    CASE answer = "exact" -> "full"
      [] answer = "accent" -> "partial"
      [] OTHER -> "none"

\* timedOut is what the caller passes with the submission; it is never taken
\* from the answer, and a submission that passes nothing is not a timeout
ServerTimedOut(req) ==
    IF "timed_out" \in DOMAIN req THEN req.timed_out ELSE FALSE

ServerResult(session, req) ==
    [question_index |-> req.idx,
     correct |-> ServerGrade(req.answer) = "full",
     partial_credit |-> ServerGrade(req.answer) = "partial",
     timed_out |-> ServerTimedOut(req),
     correct_answer |-> session.wordPairs[req.idx + 1]]

ServerError(detail) == [ok |-> FALSE, body |-> [detail |-> detail]]

\* submitAnswer without the sequential-index check
IndexAccepted_Any(session, idx) == TRUE

\* submitAnswer accepts the index that equals the count of recorded answers
IndexAccepted(session, idx) == idx = Len(session.answers)

\* submitAnswer: <<response, store after>>; the check and the append are one step
ServerSubmitAnswer(sess, req) ==
    IF req.sid \notin DOMAIN sess
    THEN <<ServerError("NotFound"), sess>>
    ELSE LET session == sess[req.sid]
         IN  IF ~IndexAccepted(session, req.idx) \/ req.idx >= Len(session.wordPairs)
             THEN <<ServerError("InvalidIndex"), sess>>
             ELSE LET result == ServerResult(session, req)
                  IN  <<[ok |-> TRUE, body |-> result],
                        [sess EXCEPT ![req.sid].answers = Append(@, result)]>>

\* getQuestion, the accessor that returns the literal correct answer
ServerGetQuestion(sess, req) ==
    IF req.sid \notin DOMAIN sess \/ req.idx >= Len(sess[req.sid].wordPairs)
    THEN <<ServerError("NotFound"), sess>>
    ELSE <<[ok |-> TRUE, body |-> [correct_answer |-> sess[req.sid].wordPairs[req.idx + 1]]],
           sess>>

\* the score cut down to a whole number instead of rounded
ScorePercentage_Truncated(fullCount, partialCount, totalQuestions) ==
    (200 * fullCount + 100 * partialCount) \div (2 * totalQuestions)

\* (fullCount + 0.5 * partialCount) / totalQuestions * 100, rounded
ScorePercentage(fullCount, partialCount, totalQuestions) ==
    (200 * fullCount + 100 * partialCount + totalQuestions) \div (2 * totalQuestions)

ServerGetSummary(sess, req) ==
    IF req.sid \notin DOMAIN sess
    THEN <<ServerError("NotFound"), sess>>
    ELSE LET session == sess[req.sid]
             n == Len(session.wordPairs)
             fullAt == {i \in 1..Len(session.answers) : session.answers[i].correct}
             partialAt == {i \in 1..Len(session.answers) : session.answers[i].partial_credit}
             noneAt == (1..Len(session.answers)) \ (fullAt \cup partialAt)
         IN  IF Len(session.answers) < n
             THEN <<ServerError("IncompleteSession"), sess>>
             ELSE <<[ok |-> TRUE,
                     score_percentage |->
                         ScorePercentage(Cardinality(fullAt), Cardinality(partialAt), n),
                     correct_count |-> Cardinality(fullAt),
                     total_questions |-> n,
                     incorrect_words |-> {session.wordPairs[i] : i \in noneAt},
                     partial_credit_words |-> {session.wordPairs[i] : i \in partialAt}],
                    sess>>

\* the word-pool collaborator: the words of the selected lessons that are not
\* excluded, or the word pairs to reuse
ServerPool(req) ==
    IF req.word_pairs # <<>>
    THEN Range(req.word_pairs)
    ELSE {v \in WordIds : Vocabulary[v].lesson \in req.selected_lessons}
             \ req.exclude_correct_words

\* how many questions the session gets: the whole pool, or count, and never
\* more than the ceiling
ServerCount(req, pool) ==
    IF req.word_pairs # <<>> \/ req.use_all_words
    THEN Min(Cardinality(pool), MAX_WORDS)
    ELSE Min(Min(req.count, Cardinality(pool)), MAX_WORDS)

\* the question orders createSession may fix for the request (none: rejected)
ServerOrders(req) ==
    LET pool == ServerPool(req)
    IN  IF pool = {} \/ req.selected_lessons = {} THEN {}
        ELSE UNION {Perms(chosen) : chosen \in
                       {c \in SUBSET pool : Cardinality(c) = ServerCount(req, pool)}}

\* session ids are never handed out twice
FreshSessionId(sess) == hist.issued + 1

\* createSession with the order chosen (reused: the session was created from
\* word pairs to reuse, as the exam after a training and a retake are)
ServerCreateSession(sess, req, order) ==
    LET id == FreshSessionId(sess)
        session == [direction |-> req.direction, wordPairs |-> order,
                    timePerQuestion |-> req.time_per_question, answers |-> <<>>,
                    reused |-> req.word_pairs # <<>>]
    IN  <<[ok |-> TRUE, session_id |-> id, questions |-> order, word_pairs |-> order,
           time_per_question |-> req.time_per_question],
          [id2 \in DOMAIN sess \cup {id} |-> IF id2 = id THEN session ELSE sess[id2]]>>

\* the session ids the script or a message in flight holds
HeldIds(w) ==
    {w.state.sessionId}
    \cup {w.net[i].req.sid : i \in {i \in DOMAIN w.net : w.net[i].kind # "create"}}
    \cup {w.net[i].resp.session_id : i \in {i \in DOMAIN w.net :
              w.net[i].kind = "create" /\ w.net[i].done /\ w.net[i].resp.ok}}

Held(sess, w) == [id \in DOMAIN sess \cap HeldIds(w) |-> sess[id]]

----------------------------------------------------------------------------
(* The answer matcher of the server (normalize_answer and check_answer of  *)
(* app.py).  Texts are sequences of Unicode code points.  The split of the *)
(* correct answer is the regular expression src/BUGFIX_MATCHING.md quotes, *)
(* and the comparison of the whole answer before its variants is the       *)
(* two-stage matching described there; the normalizer and the verdicts     *)
(* are modelled from the specification (sections 4.1, 4.2).                *)

\* s restricted to the positions in keep, in order
RECURSIVE Pick(_, _, _)
Pick(s, keep, i) ==
    IF i > Len(s) THEN <<>>
    ELSE (IF i \in keep THEN <<s[i]>> ELSE <<>>) \o Pick(s, keep, i + 1)

\* str.lower: Latin, Greek (with A-tonos) and Cyrillic capitals
Lower(c) ==
    IF c \in 65..90 \/ c \in 913..939 \/ c \in 1040..1071 THEN c + 32
    ELSE IF c = 902 THEN 940 ELSE c

\* the base letter of a Greek letter with tonos (relaxed strictness)
BaseLetter(c) ==
    CASE c = 940 -> 945 [] c = 941 -> 949 [] c = 942 -> 951 [] c = 943 -> 953
      [] c = 972 -> 959 [] c = 973 -> 965 [] c = 974 -> 969 [] OTHER -> c

\* letters of the Latin, Greek (with extended) and Cyrillic alphabets, digits
IsWordCharacter(c) ==
    \/ c \in 48..57 \/ c \in 65..90 \/ c \in 97..122
    \/ c \in 902..974 \/ c \in 7936..8188 \/ c \in 1024..1279

\* runs of whitespace collapsed to one blank, none at either end
CollapseWhitespace(s) ==
    Pick(s, {i \in DOMAIN s :
                \/ s[i] # 32
                \/ /\ i > 1 /\ s[i - 1] # 32
                   /\ \E j \in (i + 1)..Len(s) : s[j] # 32}, 1)

\* normalize_answer that collapses the whitespace first and strips after
normalize_answer_CollapseFirst(text, strictness) ==
    LET lowered == [i \in DOMAIN text |-> Lower(text[i])]
        based == IF strictness = "relaxed"
                 THEN [i \in DOMAIN lowered |-> BaseLetter(lowered[i])]
                 ELSE lowered
        collapsed == CollapseWhitespace(based)
    IN  Pick(collapsed, {i \in DOMAIN collapsed :
                            IsWordCharacter(collapsed[i]) \/ collapsed[i] = 32}, 1)

\* lowercase; (relaxed: letters with a diacritic mark to their base letter;)
\* every character that is no word character, digit or whitespace stripped,
\* the parentheses and the punctuation . , ; : among them; whitespace collapsed
normalize_answer(text, strictness) ==
    LET lowered == [i \in DOMAIN text |-> Lower(text[i])]
        based == IF strictness = "relaxed"
                 THEN [i \in DOMAIN lowered |-> BaseLetter(lowered[i])]
                 ELSE lowered
    IN  CollapseWhitespace(
            Pick(based, {i \in DOMAIN based :
                            IsWordCharacter(based[i]) \/ based[i] = 32}, 1))

\* the position of the first parenthesis after position i of s, or 0
NextParen(s, i) ==
    LET P == {j \in (i + 1)..Len(s) : s[j] \in {40, 41}}
    IN  IF P = {} THEN 0 ELSE CHOOSE j \in P : \A k \in P : j <= k

\* the commas of s that  ,\s*(?![^()]*\))  matches at: the lookahead fails
\* exactly when the first parenthesis after the comma is a closing one
SplitPoints(s) ==
    {i \in DOMAIN s : /\ s[i] = 44
                      /\ (NextParen(s, i) = 0 \/ s[NextParen(s, i)] = 40)}

\* the first position from i on that holds no whitespace (\s* is greedy)
SkipWhitespace(s, i) ==
    LET R == {j \in i..Len(s) : s[j] # 32}
    IN  IF R = {} THEN Len(s) + 1 ELSE CHOOSE j \in R : \A k \in R : j <= k

\* the pieces of s from position i on, cut at the split points P
RECURSIVE SplitFrom(_, _, _)
SplitFrom(s, P, i) ==
    LET later == {p \in P : p >= i}
    IN  IF later = {} THEN <<SubSeq(s, i, Len(s))>>
        ELSE LET p == CHOOSE q \in later : \A k \in later : q <= k
             IN  <<SubSeq(s, i, p - 1)>> \o SplitFrom(s, P, SkipWhitespace(s, p + 1))

\* re.split(r',\s*(?![^()]*\))', correct_answer)
SplitAlternatives(correct_answer) ==
    SplitFrom(correct_answer, SplitPoints(correct_answer), 1)

\* what the user answer is compared with: the whole correct answer first,
\* then its comma-separated variants
Alternatives(correct_answer) == <<correct_answer>> \o SplitAlternatives(correct_answer)

Matches(correct_answer, user_answer, strictness) ==
    \E i \in DOMAIN Alternatives(correct_answer) :
        normalize_answer(Alternatives(correct_answer)[i], strictness)
            = normalize_answer(user_answer, strictness)

\* an empty or whitespace-only text
IsBlank(text) == \A i \in DOMAIN text : text[i] = 32

\* check_answer that settles each alternative in turn: partial as soon as
\* one matches relaxed, without looking at the alternatives after it
RECURSIVE VerdictFrom(_, _, _)
VerdictFrom(alts, user_answer, i) ==
    IF i > Len(alts) THEN "none"
    ELSE IF normalize_answer(alts[i], "full") = normalize_answer(user_answer, "full")
         THEN "full"
         ELSE IF normalize_answer(alts[i], "relaxed")
                     = normalize_answer(user_answer, "relaxed")
              THEN "partial"
              ELSE VerdictFrom(alts, user_answer, i + 1)

check_answer_InTurn(correct_answer, user_answer) ==
    IF IsBlank(user_answer) THEN "none"
    ELSE VerdictFrom(Alternatives(correct_answer), user_answer, 1)

\* check_answer that knows no partial credit
check_answer_NoPartial(correct_answer, user_answer) ==
    IF IsBlank(user_answer) THEN "none"
    ELSE IF Matches(correct_answer, user_answer, "full") THEN "full"
    ELSE "none"

\* the verdict: none for an empty answer, full when an alternative matches
\* under full strictness, else partial when one matches relaxed, else none
check_answer(correct_answer, user_answer) ==
    IF IsBlank(user_answer) THEN "none"
    ELSE IF Matches(correct_answer, user_answer, "full") THEN "full"
    ELSE IF Matches(correct_answer, user_answer, "relaxed") THEN "partial"
    ELSE "none"

----------------------------------------------------------------------------
(* One exam question on its own, from the text in answerInput to the      *)
(* verdict: trial holds the correct answer of the question, the text in   *)
(* answerInput, the answer that was sent, whether the timer sent it, and  *)
(* the verdict of check_answer ("pending" before).                        *)

\* all texts over alphabet of length at most n
Texts(alphabet, n) == UNION {[1..k -> alphabet] : k \in 0..n}

\* alpha, alpha with tonos, comma, the parentheses, blank
AnswerAlphabet == {945, 940, 44, 40, 41, 32}
\* alpha, alpha with tonos, capital alpha, beta, blank, comma
TypedAlphabet == {945, 940, 913, 946, 32, 44}

\* the pieces of a text cut at every comma
CommaParts(text) == SplitFrom(text, {i \in DOMAIN text : text[i] = 44}, 1)

\* a text typed without its accents
WithoutAccents(text) == [i \in DOMAIN text |-> BaseLetter(text[i])]

\* what the caller may type for a question: any short text, the correct
\* answer, one of its comma-separated parts, or one of these without accents
TypedAnswers(correct_answer) ==
    LET derived == {correct_answer} \cup Range(CommaParts(correct_answer))
                       \cup Range(SplitAlternatives(correct_answer))
    IN  Texts(TypedAlphabet, MaxTypedLen) \cup derived
            \cup {WithoutAccents(t) : t \in derived}

\* String.prototype.trim
TrimText(text) ==
    Pick(text, {i \in DOMAIN text :
                   /\ \E j \in 1..i : text[j] # 32
                   /\ \E j \in i..Len(text) : text[j] # 32}, 1)

\* submitAnswer that sends what answerInput holds also when the time is up
AnswerSent_ReadsInput(isTimeout, inputValue) == TrimText(inputValue)

\* const answer = isTimeout ? '' : answerInput.value.trim()
AnswerSent(isTimeout, inputValue) ==
    IF isTimeout THEN <<>> ELSE TrimText(inputValue)

InitTrial(correct_answer) ==
    [correct_answer |-> correct_answer, answerInput |-> <<>>, answer |-> <<>>,
     isTimeout |-> FALSE, verdict |-> "pending"]

----------------------------------------------------------------------------
(* The Greek virtual keyboard (static/js/greek-keyboard.js:1-348).  A        *)
(* keyboard kb is [activeDiacritics, shiftMode, inserted]: the two variables *)
(* of the script and what insertGreek received last (the base letter, the   *)
(* parts of the combination key and whether the capital was asked for).     *)

\* the keys of activeDiacritics, in the order getCombinedCharacter reads them
DiacriticNames ==
    <<"smoothBreathing", "roughBreathing", "acute", "grave", "circumflex",
      "iotaSubscript", "diaeresis">>

accentMarks == {"acute", "grave", "circumflex"}
breathingMarks == {"smoothBreathing", "roughBreathing"}

\* the keys with data-vowel: the seven vowels and rho
baseVowels == {945, 949, 951, 953, 959, 965, 969, 961}

KeyboardAtLoad ==
    [activeDiacritics |-> [name \in Range(DiacriticNames) |-> FALSE],
     shiftMode |-> FALSE,
     inserted |-> [base |-> Null, parts |-> <<>>, upper |-> FALSE]]

\* toggleDiacritic that leaves the other marks of the group active
toggleDiacritic_NoExclusion(kb, diacriticName) ==
    [kb EXCEPT !.activeDiacritics[diacriticName] = ~@]

toggleDiacritic(kb, diacriticName) ==
    LET others == IF diacriticName \in accentMarks
                  THEN accentMarks \ {diacriticName}
                  ELSE IF diacriticName \in breathingMarks
                  THEN breathingMarks \ {diacriticName}
                  ELSE {}
    IN  [kb EXCEPT !.activeDiacritics =
            [name \in DOMAIN @ |->
                IF name \in others THEN FALSE
                ELSE IF name = diacriticName THEN ~@[name]
                ELSE @[name]]]

resetDiacritics(kb) ==
    [kb EXCEPT !.activeDiacritics = [name \in DOMAIN @ |-> FALSE]]

toggleShift(kb) == [kb EXCEPT !.shiftMode = ~@]

\* getCombinedCharacter up to the look-up in diacriticMap: the base letter,
\* activeParts and whether '+upper' is appended
getCombinedCharacter(kb, baseChar) ==
    [base |-> baseChar,
     parts |-> SelectSeq(DiacriticNames, LAMBDA name : kb.activeDiacritics[name]),
     upper |-> kb.shiftMode]

insertVowelWithDiacritics(kb, baseVowel) ==
    LET kb1 == resetDiacritics([kb EXCEPT !.inserted = getCombinedCharacter(kb, baseVowel)])
    IN  IF kb1.shiftMode THEN toggleShift(kb1) ELSE kb1

\* insertGreekLetter for a letter that is no vowel (beta stands for them)
insertGreekLetter(kb, lowerChar) ==
    LET kb1 == [kb EXCEPT !.inserted = [base |-> lowerChar, parts |-> <<>>,
                                        upper |-> kb.shiftMode]]
    IN  IF kb1.shiftMode THEN toggleShift(kb1) ELSE kb1

----------------------------------------------------------------------------
(* Actions *)

\* a handler ran from world w to world w2, the store being sess2 after it
Commit(w2, sess2) ==
    /\ Len(w2.net) <= w2.hist.maxInFlight
    /\ w2.hist.creates <= w2.hist.maxCreates
    /\ state' = w2.state
    /\ dom' = w2.dom
    /\ intervals' = w2.intervals
    /\ net' = w2.net
    /\ storage' = w2.storage
    /\ hist' = w2.hist
    /\ sessions' = Held(sess2, w2)
    /\ trial' = trial

\* the page as init leaves it, and no session on the server
InitScript(watch, maxCreates, maxInFlight) ==
    /\ state = InitState
    /\ dom = InitDom
    /\ intervals = {}
    /\ net = <<>>
    /\ storage = EmptyStore
    /\ sessions = [id \in {} |-> Null]
    /\ hist = InitHist(watch, maxCreates, maxInFlight)

InitWatching(watch, maxCreates, maxInFlight) ==
    /\ InitScript(watch, maxCreates, maxInFlight)
    /\ trial = Null

Init == InitWatching({"countdown"}, MaxSessions, MaxInFlight)

\* the lessons modal and the direction select of the setup screen
UpdateSelectedLessons ==
    /\ dom.screen = "setupScreen"
    /\ \E lessons \in SUBSET Lessons :
          Commit([World EXCEPT !.state.selectedLessons = lessons], sessions)

ChangeDirection ==
    /\ dom.screen = "setupScreen"
    /\ \E d \in Directions : Commit([World EXCEPT !.dom.direction = d], sessions)

\* the start button, or Enter on the setup screen
\* (the form holds a session mode of modes, a word count of counts, a time of
\* times and a use-all-words box of useAlls)
StartSession(modes, counts, times, useAlls) ==
    /\ dom.screen = "setupScreen"
    /\ \E sessionMode \in modes, count \in counts,
          timePerQuestion \in times, useAllWords \in useAlls :
          Commit(startSession(World, sessionMode, count, timePerQuestion, useAllWords),
                 sessions)

ResetAllProgress ==
    /\ dom.screen = "setupScreen"
    /\ DOMAIN storage # {}
    /\ Commit(resetAllProgress(World), sessions)

\* the next button of the training screen, or Enter on it
NextTrainingWord ==
    /\ dom.screen = "trainingScreen"
    /\ Commit(nextTrainingWord(World), sessions)

SkipToExam ==
    /\ dom.screen = "trainingScreen"
    /\ Commit(skipToExam(World), sessions)

\* submitBtn while it is bound to submitAnswer(false), or Enter on the quiz screen
\* (answerInput holds one of inputs, or nothing when it is disabled)
SubmitClick(inputs) ==
    /\ dom.screen = "quizScreen"
    /\ dom.submitBtn = "submit"
    /\ \E input \in (IF dom.inputDisabled THEN {""} ELSE inputs) :
          Commit(submitAnswer(
                     ObserveCall(ObserveCountdown(World, [hist.cd EXCEPT !.manual = TRUE]),
                                 "submitAnswer", [input |-> input]),
                     FALSE, input),
                 sessions)

\* submitBtn while it is bound to nextQuestion, or Enter on the quiz screen
NextClick ==
    /\ dom.screen = "quizScreen"
    /\ dom.submitBtn = "next"
    /\ state.currentIndex < Len(state.questions) + MaxOvershoot
    /\ Commit(nextQuestion(World), sessions)

\* one second passes for a live interval
Tick ==
    /\ \E h \in intervals : Commit(timerCallback(World), sessions)

RetakeExam ==
    /\ dom.screen = "summaryScreen"
    /\ dom.retake
    /\ Commit(retakeExam(World), sessions)

RestartQuiz ==
    /\ dom.screen = "summaryScreen"
    /\ Commit(restartQuiz(ObserveCountdown(World,
                  [hist.cd EXCEPT !.manual = TRUE, !.open = FALSE])), sessions)

\* the server handles a request in flight
ServerHandles ==
    \E i \in DOMAIN net :
        /\ ~net[i].done
        /\ \E out \in
              (CASE net[i].kind = "answer" -> {ServerSubmitAnswer(sessions, net[i].req)}
                 [] net[i].kind = "question" -> {ServerGetQuestion(sessions, net[i].req)}
                 [] net[i].kind = "summary" -> {ServerGetSummary(sessions, net[i].req)}
                 [] net[i].kind = "create" ->
                      IF ServerOrders(net[i].req) = {}
                      THEN {<<ServerError("EmptySelection"), sessions>>}
                      ELSE {ServerCreateSession(sessions, net[i].req, order) :
                               order \in ServerOrders(net[i].req)}) :
              Commit([World EXCEPT !.net[i].done = TRUE, !.net[i].resp = out[1],
                                   !.hist.issued = IF DOMAIN out[2] = DOMAIN sessions
                                                   THEN @ ELSE @ + 1],
                     out[2])

\* a response arrives and the handler awaiting it goes on
ResponseArrives ==
    \E i \in DOMAIN net :
        /\ net[i].done
        /\ LET m == net[i]
               w == [World EXCEPT !.net = Drop(net, i)]
           IN  Commit(
                 CASE m.kind = "answer" -> submitAnswerResponse(w, m.resp.body, m.cont.isTimeout)
                   [] m.kind = "question" -> fetchCorrectAnswerResponse(w, m.req, m.resp)
                   [] m.kind = "summary" -> showSummaryResponse(w, m.resp, sessions, m.req.sid)
                   [] m.kind = "create" ->
                        IF m.cont.fn = "startSession"
                        THEN startSessionResponse(w, m.resp, m.cont.sessionMode)
                        ELSE startQuizAfterTrainingResponse(w, m.resp),
                 sessions)

\* fetch rejects (the request or its response is lost): the catch of the
\* handler awaiting it runs; the catches of startSession, startQuizAfterTraining
\* and showSummary only report
RequestFails ==
    \E i \in DOMAIN net :
        LET m == net[i]
            w == [World EXCEPT !.net = Drop(net, i)]
        IN  Commit(CASE m.kind = "answer" -> submitAnswerCatch(w)
                     [] m.kind = "question" -> fetchCorrectAnswerCatch(w)
                     [] OTHER -> w,
                   sessions)

\* The exam: exam-only sessions over all the words available, with the
\* countdown watched
Next ==
    \/ StartSession({"exam"}, {PoolSize}, 1..MaxTime, {FALSE})
    \/ SubmitClick({"", " ", "exact"})
    \/ NextClick
    \/ Tick
    \/ RestartQuiz
    \/ ServerHandles
    \/ ResponseArrives
    \/ RequestFails

Spec == Init /\ [][Next]_vars

\* Mastery: exam-only sessions one after the other, in either direction and
\* over any lessons, with the progress writes watched; the caller answers
\* within the time (a time per question of 1 second is the only one chosen)
InitLedger == InitWatching({"mastery"}, MaxLedgerSessions, MaxLedgerInFlight)

NextLedger ==
    \/ UpdateSelectedLessons
    \/ ChangeDirection
    \/ StartSession({"exam"}, {PoolSize}, {1}, {FALSE})
    \/ ResetAllProgress
    \/ SubmitClick({"exact", "accent"})
    \/ NextClick
    \/ Tick
    \/ RestartQuiz
    \/ ServerHandles
    \/ ResponseArrives
    \/ RequestFails

SpecLedger == InitLedger /\ [][NextLedger]_vars

\* Training: sessions of either mode over all the words available, the
\* training followed by its exam, the exam by a restart
InitTraining == InitWatching({}, MaxTrainingSessions, MaxTrainingInFlight)

NextTraining ==
    \/ StartSession({"training", "exam"}, {PoolSize}, {1}, {FALSE})
    \/ NextTrainingWord
    \/ SkipToExam
    \/ SubmitClick({"exact"})
    \/ NextClick
    \/ Tick
    \/ RestartQuiz
    \/ ServerHandles
    \/ ResponseArrives
    \/ RequestFails

SpecTraining == InitTraining /\ [][NextTraining]_vars

\* Retakes: one request at a time, the training followed by its exam, the
\* exam by retakes or by a restart and a session of either mode
InitRetake == InitWatching({"summary"}, MaxRetakeSessions, MaxRetakeInFlight)

NextRetake ==
    \/ StartSession({"training", "exam"}, {PoolSize}, {1}, {FALSE})
    \/ NextTrainingWord
    \/ SkipToExam
    \/ SubmitClick({"exact", "wrong"})
    \/ NextClick
    \/ Tick
    \/ RetakeExam
    \/ RestartQuiz
    \/ ServerHandles
    \/ ResponseArrives
    \/ RequestFails

SpecRetake == InitRetake /\ [][NextRetake]_vars

\* Double start: sessions of one word, of either mode, started while another
\* start is still in flight, their exams answered wrongly and retaken, with
\* the summary displayed last watched
InitDoubleStart ==
    InitWatching({"summary"}, MaxDoubleStartSessions, MaxDoubleStartInFlight)

NextDoubleStart ==
    \/ StartSession({"training", "exam"}, {1}, {1}, {FALSE})
    \/ NextTrainingWord
    \/ SubmitClick({"wrong"})
    \/ NextClick
    \/ Tick
    \/ RetakeExam
    \/ RestartQuiz
    \/ ServerHandles
    \/ ResponseArrives
    \/ RequestFails

SpecDoubleStart == InitDoubleStart /\ [][NextDoubleStart]_vars

\* The training screen: a training and its exam, with the prompt and the
\* answer on the training screen watched
InitShown == InitWatching({"training"}, MaxShownSessions, MaxShownInFlight)

NextShown ==
    \/ StartSession({"training"}, {PoolSize}, {1}, {FALSE})
    \/ NextTrainingWord
    \/ SkipToExam
    \/ SubmitClick({"exact"})
    \/ NextClick
    \/ Tick
    \/ RestartQuiz
    \/ ServerHandles
    \/ ResponseArrives
    \/ RequestFails

SpecShown == InitShown /\ [][NextShown]_vars

\* Submissions: one exam, the text in answerInput at each submit watched
InitSubmit == InitWatching({"calls"}, MaxSubmitSessions, MaxSubmitInFlight)

NextSubmit ==
    \/ StartSession({"exam"}, {PoolSize}, 1..MaxTime, {FALSE})
    \/ SubmitClick({"", " ", "exact"})
    \/ NextClick
    \/ Tick
    \/ RestartQuiz
    \/ ServerHandles
    \/ ResponseArrives
    \/ RequestFails

SpecSubmit == InitSubmit /\ [][NextSubmit]_vars

\* The setup form: any word count (0 stands for a text that is no number),
\* with and without use-all-words, over any lessons, for a training and its
\* exam or for an exam
WordCounts == {0, 1, PoolSize, MAX_WORDS, MAX_WORDS + 1}

InitSetup == InitWatching({}, MaxSetupSessions, MaxSetupInFlight)

NextSetup ==
    \/ UpdateSelectedLessons
    \/ ChangeDirection
    \/ StartSession({"training", "exam"}, WordCounts, {1}, BOOLEAN)
    \/ NextTrainingWord
    \/ SkipToExam
    \/ SubmitClick({"exact"})
    \/ NextClick
    \/ Tick
    \/ RestartQuiz
    \/ ServerHandles
    \/ ResponseArrives
    \/ RequestFails

SpecSetup == InitSetup /\ [][NextSetup]_vars

\* The answer matcher: one question with any correct answer; the caller types
\* and submits, or the time runs out, or another client has the text graded
\* as it is
ScriptIdle == UNCHANGED <<state, dom, intervals, net, storage, sessions, hist>>

InitMatcher ==
    /\ InitScript({}, 0, 0)
    /\ trial \in {InitTrial(c) : c \in Texts(AnswerAlphabet, MaxAnswerLen)}

TypeAnswer ==
    /\ trial.verdict = "pending"
    /\ trial.answerInput = <<>>
    /\ \E text \in TypedAnswers(trial.correct_answer) \ {<<>>} :
          trial' = [trial EXCEPT !.answerInput = text]
    /\ ScriptIdle

\* the answer is sent and check_answer grades it
Graded(isTimeout, answer) ==
    trial' = [trial EXCEPT !.answer = answer, !.isTimeout = isTimeout,
                           !.verdict = check_answer(trial.correct_answer, answer)]

\* submitAnswer(false), which sends nothing when the trimmed text is empty
SubmitTyped ==
    /\ trial.verdict = "pending"
    /\ AnswerSent(FALSE, trial.answerInput) # <<>>
    /\ Graded(FALSE, AnswerSent(FALSE, trial.answerInput))
    /\ ScriptIdle

\* handleTimeout: submitAnswer(true)
TimeRunsOut ==
    /\ trial.verdict = "pending"
    /\ Graded(TRUE, AnswerSent(TRUE, trial.answerInput))
    /\ ScriptIdle

\* the answer endpoint called with the text as it is
CheckAnswer ==
    /\ trial.verdict = "pending"
    /\ Graded(FALSE, trial.answerInput)
    /\ ScriptIdle

NextMatcher == TypeAnswer \/ SubmitTyped \/ TimeRunsOut \/ CheckAnswer

SpecMatcher == InitMatcher /\ [][NextMatcher]_vars

\* The score: the answers of a session are recorded one by one with their
\* verdicts, and the summary of the completed session computes the score
InitScore ==
    /\ InitScript({}, 0, 0)
    /\ trial = [fullCount |-> 0, partialCount |-> 0, totalQuestions |-> 0,
                summarised |-> FALSE, score_percentage |-> 0]

RecordVerdict ==
    /\ ~trial.summarised
    /\ trial.totalQuestions < MaxQuestions
    /\ \E verdict \in {"full", "partial", "none"} :
          trial' = [trial EXCEPT
                       !.totalQuestions = @ + 1,
                       !.fullCount = IF verdict = "full" THEN @ + 1 ELSE @,
                       !.partialCount = IF verdict = "partial" THEN @ + 1 ELSE @]
    /\ ScriptIdle

GetSummary ==
    /\ ~trial.summarised
    /\ trial.totalQuestions >= 1
    /\ trial' = [trial EXCEPT
                    !.summarised = TRUE,
                    !.score_percentage =
                        ScorePercentage(trial.fullCount, trial.partialCount,
                                        trial.totalQuestions)]
    /\ ScriptIdle

NextScore == RecordVerdict \/ GetSummary

SpecScore == InitScore /\ [][NextScore]_vars

\* The mastery key: pairs of the vocabulary, the variants of a pair among
\* them, are marked mastered one by one
InitKey == InitWatching({"calls"}, 0, 0)

MarkWordCorrect ==
    /\ \E w \in DOMAIN Vocabulary, direction \in Directions :
          Commit(ObserveCall([World EXCEPT !.storage =
                                  markWordCorrect(storage, w, direction)],
                             "markWordCorrect", [direction |-> direction]),
                 sessions)

\* resetProgress(lessons, direction); matched observes whether the store held
\* an entry of the lessons and the direction when it was called
ResetProgress ==
    /\ \E lessons \in SUBSET Lessons, direction \in Directions :
          Commit(ObserveCall([World EXCEPT !.storage =
                                  resetProgress(storage, lessons, direction)],
                             "resetProgress",
                             [lessons |-> lessons, direction |-> direction,
                              matched |-> \E k \in DOMAIN storage :
                                             /\ storage[k].lesson \in lessons
                                             /\ storage[k].direction = direction]),
                 sessions)

NextKey == MarkWordCorrect \/ ResetProgress \/ ResetAllProgress

SpecKey == InitKey /\ [][NextKey]_vars

\* The virtual keyboard: the caller presses diacritic buttons, shift, reset,
\* vowels and letters in any order; trial holds the keyboard and the function
\* called last
InitKeyboard ==
    /\ InitScript({}, 0, 0)
    /\ trial = [kb |-> KeyboardAtLoad, last |-> "init"]

ToggleDiacritic ==
    /\ \E diacriticName \in Range(DiacriticNames) :
          trial' = [kb |-> toggleDiacritic(trial.kb, diacriticName),
                    last |-> "toggleDiacritic"]
    /\ ScriptIdle

ResetDiacritics ==
    /\ trial' = [kb |-> resetDiacritics(trial.kb), last |-> "resetDiacritics"]
    /\ ScriptIdle

ToggleShift ==
    /\ trial' = [kb |-> toggleShift(trial.kb), last |-> "toggleShift"]
    /\ ScriptIdle

InsertVowelWithDiacritics ==
    /\ \E baseVowel \in baseVowels :
          trial' = [kb |-> insertVowelWithDiacritics(trial.kb, baseVowel),
                    last |-> "insertVowelWithDiacritics"]
    /\ ScriptIdle

InsertGreekLetter ==
    /\ trial' = [kb |-> insertGreekLetter(trial.kb, 946), last |-> "insertGreekLetter"]
    /\ ScriptIdle

NextKeyboard ==
    \/ ToggleDiacritic
    \/ ResetDiacritics
    \/ ToggleShift
    \/ InsertVowelWithDiacritics
    \/ InsertGreekLetter

SpecKeyboard == InitKeyboard /\ [][NextKeyboard]_vars

----------------------------------------------------------------------------
(* Properties *)

\* an answer request for the question on display is in flight
AnswerInFlight ==
    \E i \in DOMAIN net :
        /\ net[i].kind = "answer"
        /\ net[i].req.sid = state.sessionId
        /\ net[i].req.idx = state.currentIndex

\* the script holds a graded result for the question on display
AnswerRecorded ==
    \E i \in DOMAIN state.answers :
        /\ "question_index" \in DOMAIN state.answers[i]
        /\ state.answers[i].question_index = state.currentIndex

\* this step sends the request msg satisfies
Sends(P(_)) == Len(net') = Len(net) + 1 /\ P(net'[Len(net')])

\* C1: during an exam the script's answers list has at most as many entries
\* as the session has word pairs, and its i-th entry is the graded result of
\* question i (appended in index order, nothing skipped or duplicated).
C1_AnswersInIndexOrder ==
    dom.screen = "quizScreen" =>
        /\ Len(state.answers) <= Len(state.wordPairs)
        /\ \A i \in DOMAIN state.answers :
              /\ "question_index" \in DOMAIN state.answers[i]
              /\ state.answers[i].question_index = i - 1

\* C2: saveQuizProgress stores a mastery entry for exactly the word pairs of
\* the attempt whose recorded answer has verdict full.
C2_EntryIffFullVerdict ==
    hist.save.done => hist.save.written = hist.save.full

IsStartRequest(msg) == msg.kind = "create" /\ msg.cont.fn = "startSession"

\* C3: once a summary reported word W full under direction D, every request
\* startSession sends for D with W's lesson selected lists W for exclusion,
\* and it lists no word that no summary ever reported full.
C3_MasteredWordsExcluded ==
    [][Sends(IsStartRequest) =>
          LET req == net'[Len(net')].req
          IN  \A v \in WordIds :
                 /\ (/\ <<req.direction, v>> \in hist.mastered
                     /\ Vocabulary[v].lesson \in req.selected_lessons)
                    => v \in req.exclude_correct_words
                 /\ v \in req.exclude_correct_words
                    => \E d \in Directions : <<d, v>> \in hist.mastered]_vars

\* C4: once an answer for the question on display has been submitted or
\* recorded, or the session has been restarted, no countdown is running.
C4_NoCountdownAfterQuestionEnded ==
    (AnswerInFlight \/ AnswerRecorded \/ dom.screen = "setupScreen") => intervals = {}

IsRejectedAnswer(msg) == msg.kind = "answer" /\ msg.done /\ ~msg.resp.ok

\* C5: a submission the server rejected with InvalidIndex changes nothing:
\* when its response arrives the script's answers list stays as it was (and
\* the session store was left as it was when it was rejected).
C5_RejectedSubmissionChangesNothing ==
    [][(\E i \in DOMAIN net : IsRejectedAnswer(net[i]) /\ net' = Drop(net, i))
          => state'.answers = state.answers]_vars

C7_OneExpiryAfterDTicks ==
    /\ state.timeRemaining >= 0
    /\ (hist.cd.d >= 1 /\ ~hist.cd.manual) =>
          /\ hist.cd.ticks <= hist.cd.d
          /\ hist.cd.expired = (IF hist.cd.ticks = hist.cd.d THEN 1 ELSE 0)
          /\ state.timeRemaining = hist.cd.d - hist.cd.ticks
          /\ hist.cd.ticks < hist.cd.d =>
                hist.cd.open /\ intervals = {state.timerInterval}
          /\ hist.cd.ticks = hist.cd.d =>
                ~hist.cd.open /\ intervals = {} /\ state.timerInterval = Null

C7_Witness ==
    /\ ~hist.cd.manual
    /\ hist.cd.d = MaxTime
    /\ hist.cd.ticks = MaxTime
    /\ hist.cd.expired = 1
    /\ intervals = {}

\* C8: a cancelled timer is dead: while no handle is held no interval is
\* live, so no tick and no expiry can happen until startTimer runs again, and
\* stopTimer on the inactive timer changes nothing.
C8_CancelledTimerIsDead ==
    state.timerInterval = Null => (intervals = {} /\ stopTimer(World) = World)

\* a manual answer is in flight, its countdown cancelled before it expired
C8_Witness ==
    /\ state.timerInterval = Null
    /\ state.timeRemaining > 0
    /\ \E i \in DOMAIN net : net[i].kind = "answer" /\ ~net[i].cont.isTimeout

\* C9: at most one interval is live, the one whose handle the script holds,
\* and a step that starts a timer leaves the remaining time at timePerQuestion.
C9_OneCountdown ==
    /\ [](Cardinality(intervals) <= 1 /\ intervals \subseteq {state.timerInterval})
    /\ [][state'.timerInterval \notin {Null, state.timerInterval} =>
             /\ state'.timeRemaining = state'.timePerQuestion
             /\ intervals' = {state'.timerInterval}]_vars

\* startTimer ran while a handle was held (the new handle is then the second)
C9_Witness ==
    /\ state.timerInterval = 2
    /\ intervals = {2}

\* C10: a question on display that no submission was sent for has seen fewer
\* ticks than its time per question: the d-th tick after the display at the
\* latest resolves it.
C10_ResolvedWithinTimePerQuestion ==
    hist.cd.open => hist.cd.ticks < hist.cd.d

\* C11: a mastery entry, once stored, stays as it is through every step
\* that is not resetAllProgress: no summary processing, whatever the later
\* answers for the word, deletes or changes it.
C11_MasteryKept ==
    [][ResetAllProgress \/
          \A k \in DOMAIN storage : k \in DOMAIN storage' /\ storage'[k] = storage[k]]_vars

\* a summary was processed in which a word that has an entry under the
\* direction selected was not answered fully right
C11_Witness ==
    /\ dom.screen = "summaryScreen"
    /\ \E i \in DOMAIN state.wordPairs :
          /\ i <= Len(state.answers)
          /\ ~wasFullyCorrect(state.answers[i])
          /\ progressKey(state.wordPairs[i], dom.direction) \in DOMAIN storage

\* the response of a summary request arrives
SummaryArrives ==
    \E i \in DOMAIN net :
        net[i].kind = "summary" /\ net[i].done /\ net' = Drop(net, i)

C17_EmptySelectionNotSent ==
    \A i \in DOMAIN net :
        IsStartRequest(net[i]) =>
            /\ net[i].req.selected_lessons # {}
            /\ {v \in WordIds : Vocabulary[v].lesson \in net[i].req.selected_lessons}
                  \ net[i].req.exclude_correct_words # {}

\* C15: on the quiz screen the question index moves from i to i+1 only when
\* the session holds a recorded answer for question i.
C15_NextAfterRecordedAnswer ==
    [][(/\ dom.screen = "quizScreen"
        /\ state.currentIndex < Len(state.questions)
        /\ state'.currentIndex = state.currentIndex + 1)
          => /\ state.sessionId \in DOMAIN sessions
             /\ Len(sessions[state.sessionId].answers) > state.currentIndex]_vars

\* C16: a summary is requested only for a session that holds an answer for
\* every one of its questions.
C16_SummaryOfCompleteSession ==
    \A i \in DOMAIN net :
        (net[i].kind = "summary" /\ net[i].req.sid \in DOMAIN sessions) =>
            Len(sessions[net[i].req.sid].answers) = Len(sessions[net[i].req.sid].wordPairs)

\* a step the caller takes, or the arrival of the response to a session
\* creation or a summary the caller asked for
CallerStep ==
    \/ NextClick \/ NextTrainingWord \/ SkipToExam \/ RetakeExam \/ RestartQuiz
    \/ \E i \in DOMAIN net :
          /\ net[i].kind \in {"create", "summary"} /\ net[i].done
          /\ Len(net') >= Len(net) - 1
          /\ SubSeq(net', 1, Len(net) - 1) = Drop(net, i)

\* C20: the question index, the screen and the session change only in a
\* step the caller takes (or in the arrival of what the caller requested); a
\* tick, an expiry and the arrival of a graded answer leave them as they are.
C20_NoImplicitTransition ==
    [][(\/ state'.currentIndex # state.currentIndex
        \/ dom'.screen # dom.screen
        \/ state'.sessionId # state.sessionId) => CallerStep]_vars

\* the countdown expired, its automatic submission was graded, and the
\* driver is still on the question
C20_Witness ==
    /\ dom.screen = "quizScreen"
    /\ hist.cd.expired = 1
    /\ ~hist.cd.manual
    /\ dom.submitBtn = "next"
    /\ state.currentIndex = 0
    /\ Len(state.answers) = 1

IsExamRequest(msg) == msg.kind = "create" /\ msg.cont.fn = "startQuizAfterTraining"

\* C13: the request that ends training carries the training session's word
\* pairs and time per question; when its response arrives on the training
\* screen the exam is a session with another id, the same word pairs up to
\* their order, the same time per question, at index 0 with no answers, in
\* the script and in the store (a response that is lost changes nothing in
\* the script).
C13_ExamAfterTrainingIsNewSession ==
    [][/\ (dom.screen = "trainingScreen" /\ Sends(IsExamRequest)) =>
              LET req == net'[Len(net')].req
              IN  /\ req.word_pairs = state.wordPairs
                  /\ req.word_pairs # <<>>
                  /\ req.time_per_question = state.timePerQuestion
       /\ \A i \in DOMAIN net :
              (/\ dom.screen = "trainingScreen"
               /\ IsExamRequest(net[i]) /\ net[i].done /\ net[i].resp.ok
               /\ net' = Drop(net, i)
               /\ state' # state)
              => LET req == net[i].req
                     id == net[i].resp.session_id
                 IN  /\ dom'.screen = "quizScreen"
                     /\ state'.sessionId = id
                     /\ id # state.sessionId
                     /\ Len(state'.wordPairs) = Len(req.word_pairs)
                     /\ Range(state'.wordPairs) = Range(req.word_pairs)
                     /\ state'.questions = state'.wordPairs
                     /\ state'.timePerQuestion = req.time_per_question
                     /\ state'.currentIndex = 0
                     /\ state'.answers = <<>>
                     /\ sessions'[id].answers = <<>>
                     /\ sessions'[id].wordPairs = state'.wordPairs]_vars

\* the exam after a training of two words is on display, in another order
C13_Witness ==
    /\ dom.screen = "quizScreen"
    /\ state.trainingCompleted
    /\ state.wordPairs = <<2, 1>>
    /\ state.currentIndex = 0
    /\ state.sessionId = 2

IsQuestionRequest(msg) == msg.kind = "question"

C19_NoGradingInTraining ==
    dom.screen = "trainingScreen" =>
        /\ intervals = {}
        /\ state.answers = <<>>
        /\ \A i \in DOMAIN net :
              net[i].kind = "answer" => net[i].req.sid # state.sessionId

\* C14: the summary that offers the retake is the summary of an attempt that
\* followed a training (an exam created from the word pairs of a training
\* or of a retake) and whose score is below 100.
C14_RetakeOnlyAfterTrainingBelow100 ==
    [][\A i \in DOMAIN net :
          (/\ net[i].kind = "summary" /\ net[i].done /\ net[i].resp.ok
           /\ net' = Drop(net, i)
           /\ dom'.screen = "summaryScreen"
           /\ dom'.retake)
          => /\ sessions[net[i].req.sid].reused
             /\ net[i].resp.score_percentage < 100]_vars

\* C21: every answer the session store recorded is flagged timedOut exactly
\* when the submission that produced it was made by the expiry of the timer
\* (handleTimeout), whatever the answer text.
C21_TimedOutIffTimerExpiry ==
    \A i \in DOMAIN net :
        (net[i].kind = "answer" /\ net[i].done /\ net[i].resp.ok)
        => net[i].resp.body.timed_out = net[i].cont.isTimeout

\* some part of the split of the correct answer equals the graded answer under
\* the strictness
PartMatches(strictness) ==
    \E i \in DOMAIN SplitAlternatives(trial.correct_answer) :
        normalize_answer(SplitAlternatives(trial.correct_answer)[i], strictness)
            = normalize_answer(trial.answer, strictness)

Depth(s, i) ==
    Cardinality({j \in 1..(i - 1) : s[j] = 40}) - Cardinality({j \in 1..(i - 1) : s[j] = 41})

\* every parenthesis of s is closed and none closes what was not opened
Balanced(s) ==
    /\ \A i \in DOMAIN s : Depth(s, i) >= 0
    /\ Depth(s, Len(s) + 1) = 0

\* s has the form "a, b (c)": one comma, outside the parentheses, and a
\* parenthesised group after it
IsMultiPart(s) ==
    /\ Balanced(s)
    /\ \E i \in DOMAIN s :
          /\ s[i] = 44 /\ Depth(s, i) = 0
          /\ \A j \in DOMAIN s : s[j] = 44 => j = i
          /\ \E j \in (i + 1)..Len(s) : s[j] = 40

\* C23: a correct answer of the form "a, b (c)" is one alternative: the
\* identical answer is graded full, and an answer that is only one of the two
\* parts around its comma (a part with letters in it, and not the same text
\* as the whole once the punctuation is dropped) is graded none.
C23_MultiPartAnswerKeptWhole ==
    (trial.verdict # "pending" /\ IsMultiPart(trial.correct_answer)) =>
        /\ trial.answer = trial.correct_answer => trial.verdict = "full"
        /\ (/\ trial.answer \in Range(CommaParts(trial.correct_answer))
            /\ normalize_answer(trial.answer, "relaxed") # <<>>
            /\ normalize_answer(trial.answer, "relaxed")
                 # normalize_answer(trial.correct_answer, "relaxed"))
           => trial.verdict = "none"

\* the alternatives of a correct answer with well-formed parentheses: its
\* pieces between the commas that stand outside every parenthesised group
ListedAlternatives(s) == SplitFrom(s, {i \in DOMAIN s : s[i] = 44 /\ Depth(s, i) = 0}, 1)

\* C24: for a correct answer with well-formed parentheses, every (non-empty)
\* alternative of the list submitted alone is graded full, and no comma inside
\* a parenthesised group starts a new alternative: an answer the matcher
\* holds as one of the pieces of its split is an alternative of the list.
C24_ListedAlternativesAccepted ==
    (trial.verdict # "pending" /\ Balanced(trial.correct_answer)) =>
        /\ (/\ trial.answer \in Range(ListedAlternatives(trial.correct_answer))
            /\ ~IsBlank(trial.answer))
           => trial.verdict = "full"
        /\ (/\ trial.answer \in Range(SplitAlternatives(trial.correct_answer))
            /\ ~IsBlank(trial.answer))
           => trial.answer \in Range(ListedAlternatives(trial.correct_answer))

\* C25: a non-empty answer that differs from every alternative under full
\* strictness but equals one of them once the diacritic marks are removed is
\* graded partial; an answer that differs from every alternative also without
\* the marks is graded none.
C25_DiacriticOnlyIsPartial ==
    (trial.verdict # "pending" /\ ~IsBlank(trial.answer)) =>
        /\ (~PartMatches("full") /\ PartMatches("relaxed")) => trial.verdict = "partial"
        /\ ~PartMatches("relaxed") => trial.verdict = "none"

\* C25 as amended: the same, with the whole correct answer counted among
\* the alternatives the answer is compared with.
C25_DiacriticOnlyIsPartial_Amended ==
    (trial.verdict # "pending" /\ ~IsBlank(trial.answer)) =>
        /\ (/\ ~Matches(trial.correct_answer, trial.answer, "full")
            /\ Matches(trial.correct_answer, trial.answer, "relaxed"))
           => trial.verdict = "partial"
        /\ ~Matches(trial.correct_answer, trial.answer, "relaxed")
           => trial.verdict = "none"

\* an answer that lacks an accent of the second alternative was graded partial
C25_Witness ==
    /\ trial.verdict = "partial"
    /\ Len(SplitAlternatives(trial.correct_answer)) = 2
    /\ trial.answer = WithoutAccents(SplitAlternatives(trial.correct_answer)[2])
    /\ ~Matches(trial.correct_answer, trial.answer, "full")

\* C26: an empty or whitespace-only answer is graded none whatever the
\* correct answer is, and the answer the expiry of the timer sends is empty
\* (and so graded none) whatever answerInput holds at that moment.
C26_EmptyAnswerIsNone ==
    trial.verdict # "pending" =>
        /\ IsBlank(trial.answer) => trial.verdict = "none"
        /\ trial.isTimeout => (trial.answer = <<>> /\ trial.verdict = "none")

\* the time ran out with the exact correct answer typed, and the verdict is none
C26_Witness ==
    /\ trial.isTimeout
    /\ ~IsBlank(trial.correct_answer)
    /\ trial.answerInput = trial.correct_answer
    /\ trial.verdict = "none"

\* C27: a correct answer with unbalanced parentheses is graded as a single
\* alternative: a verdict is returned, and it is full or partial only when the
\* answer equals the whole correct answer under the strictness of that verdict.
C27_MalformedAnswerIsOneAlternative ==
    (trial.verdict # "pending" /\ ~Balanced(trial.correct_answer)) =>
        /\ trial.verdict \in {"full", "partial", "none"}
        /\ trial.verdict = "full" =>
              normalize_answer(trial.answer, "full")
                  = normalize_answer(trial.correct_answer, "full")
        /\ trial.verdict = "partial" =>
              normalize_answer(trial.answer, "relaxed")
                  = normalize_answer(trial.correct_answer, "relaxed")

\* the capital of a small Greek letter (of alpha with tonos too)
Upper(c) == IF c \in 945..969 THEN c - 32 ELSE IF c = 940 THEN 902 ELSE c

\* text with character c put in after its first k characters
InsertAt(text, k, c) == SubSeq(text, 1, k) \o <<c>> \o SubSeq(text, k + 1, Len(text))

\* ( ) [ ] . , ; :
Punctuation == {40, 41, 91, 93, 46, 44, 59, 58}

\* normalize_answer under strictness is idempotent on text and gives the same
\* for text in capitals, with blanks around it, with any blank of it doubled
\* and with a punctuation character put in anywhere
NormalizesAlike(text, strictness) ==
    LET n == normalize_answer(text, strictness)
    IN  /\ normalize_answer(n, strictness) = n
        /\ normalize_answer([i \in DOMAIN text |-> Upper(text[i])], strictness) = n
        /\ normalize_answer(<<32>> \o text \o <<32, 32>>, strictness) = n
        /\ \A k \in DOMAIN text :
              text[k] = 32 => normalize_answer(InsertAt(text, k, 32), strictness) = n
        /\ \A k \in 0..Len(text), c \in Punctuation :
              normalize_answer(InsertAt(text, k, c), strictness) = n

\* C28: normalize_answer is idempotent under both strictness tiers, and is
\* insensitive to letter case, to leading, trailing and repeated whitespace
\* and to the punctuation ( ) [ ] . , ; : (checked on every answer graded).
C28_NormalizeIdempotentAndInsensitive ==
    trial.verdict # "pending" =>
        /\ NormalizesAlike(trial.answer, "full")
        /\ NormalizesAlike(trial.answer, "relaxed")

\* an answer was graded that starts with a blank, holds a parenthesis and an
\* accent, and is changed by the normalizer under either strictness
C28_Witness ==
    /\ trial.verdict # "pending"
    /\ Len(trial.answer) >= 3
    /\ trial.answer[1] = 32
    /\ \E i \in DOMAIN trial.answer : trial.answer[i] = 40
    /\ normalize_answer(trial.answer, "full") # <<>>
    /\ normalize_answer(trial.answer, "relaxed") # normalize_answer(trial.answer, "full")

\* C29: the score of a completed session with F full and P partial answers
\* out of T is a whole number nearest to 100 * (2F + P) / (2T) (at a tie,
\* either neighbour), and 8 full with 2 partial out of 10 gives 90.
C29_ScoreIsRoundedPercentage ==
    trial.summarised =>
        /\ 2 * trial.totalQuestions * trial.score_percentage
             - 100 * (2 * trial.fullCount + trial.partialCount) <= trial.totalQuestions
        /\ 100 * (2 * trial.fullCount + trial.partialCount)
             - 2 * trial.totalQuestions * trial.score_percentage <= trial.totalQuestions
        /\ (trial.fullCount = 8 /\ trial.partialCount = 2 /\ trial.totalQuestions = 10)
           => trial.score_percentage = 90

\* a summary whose score had to be rounded up: 2 full of 3 is 67
C29_Witness ==
    /\ trial.summarised
    /\ trial.fullCount = 2 /\ trial.partialCount = 0 /\ trial.totalQuestions = 3
    /\ trial.score_percentage = 67

\* a text without case, diacritic marks, punctuation and whitespace
Folded(text) ==
    Pick(normalize_answer(text, "relaxed"),
         {i \in DOMAIN normalize_answer(text, "relaxed") :
             normalize_answer(text, "relaxed")[i] # 32}, 1)

\* two pairs of the same lesson that differ only in case, diacritic marks,
\* punctuation and whitespace
SameWord(a, b) ==
    /\ Vocabulary[a].lesson = Vocabulary[b].lesson
    /\ Folded(Vocabulary[a].greek) = Folded(Vocabulary[b].greek)
    /\ Folded(Vocabulary[a].bulgarian) = Folded(Vocabulary[b].bulgarian)

\* C30: two pairs of the same lesson whose sides differ only in case,
\* punctuation, whitespace and diacritic marks have the same mastery key: once
\* one is marked mastered for a direction, the other counts as mastered for it.
C30_VariantsShareMastery ==
    \A a \in DOMAIN Vocabulary, b \in DOMAIN Vocabulary, direction \in Directions :
        (SameWord(a, b) /\ isWordCorrect(storage, a, direction))
        => isWordCorrect(storage, b, direction)

\* ---- C31 ----
\* C31: a reset with a lessons + direction filter deletes exactly the entries
\* whose lesson is in the lessons and whose direction is the direction, and
\* leaves every other entry as it was; a reset without filters deletes all
C31_ResetDeletesExactlyTheFiltered ==
    [][hist'.call # hist.call =>
         CASE hist'.call.fn = "resetProgress" ->
                LET a == hist'.call.args
                    kept == {k \in DOMAIN storage :
                                ~(storage[k].lesson \in a.lessons
                                  /\ storage[k].direction = a.direction)}
                IN  /\ DOMAIN storage' = kept
                    /\ \A k \in kept : storage'[k] = storage[k]
           [] hist'.call.fn = "resetAllProgress" -> DOMAIN storage' = {}
           [] OTHER -> TRUE]_vars

\* a filtered reset has just deleted entries and kept others
C31_Witness ==
    /\ hist.call.fn = "resetProgress"
    /\ hist.call.args.matched
    /\ hist.call.args.lessons # Lessons
    /\ \E k \in DOMAIN storage : storage[k].direction = hist.call.args.direction
    /\ \E k \in DOMAIN storage : storage[k].lesson \in hist.call.args.lessons

\* ---- C33 ----
\* the entries of the store recorded under direction d
EntriesOf(store, d) ==
    [k \in {k \in DOMAIN store : store[k].direction = d} |-> store[k]]

\* C33: mastery is scoped to the direction: marking a pair under a direction,
\* or a reset for a direction, changes nothing of what isWordCorrect and
\* getCorrectWordsForLessons answer for the other direction, and no entry of it
C33_MasteryScopedToDirection ==
    [][(/\ hist'.call # hist.call
        /\ hist'.call.fn \in {"markWordCorrect", "resetProgress"}) =>
         \A d \in Directions \ {hist'.call.args.direction} :
            /\ \A w \in DOMAIN Vocabulary :
                  isWordCorrect(storage', w, d) = isWordCorrect(storage, w, d)
            /\ \A lessons \in SUBSET Lessons :
                  getCorrectWordsForLessons(storage', lessons, d)
                      = getCorrectWordsForLessons(storage, lessons, d)
            /\ EntriesOf(storage', d) = EntriesOf(storage, d)]_vars

\* a pair has just been marked under one direction and is neither mastered
\* nor listed under the other, whose store holds another pair
C33_Witness ==
    /\ hist.call.fn = "markWordCorrect"
    /\ \E w \in DOMAIN Vocabulary, d \in Directions \ {hist.call.args.direction} :
          /\ isWordCorrect(storage, w, hist.call.args.direction)
          /\ ~isWordCorrect(storage, w, d)
          /\ w \notin getCorrectWordsForLessons(storage, Lessons, d)
          /\ getCorrectWordsForLessons(storage, Lessons, d) # {}

\* ---- C32 ----
\* C32: the word count of every session-creation request of startSession is
\* at least 1 and at most the ceiling of 200, with use-all-words or without;
\* without use-all-words it is at most the words available in the lessons
C32_RequestCountWithinCeiling ==
    \A i \in DOMAIN net :
        IsStartRequest(net[i]) =>
            /\ net[i].req.count >= MIN_WORDS
            /\ net[i].req.count <= MAX_WORDS
            /\ ~net[i].req.use_all_words =>
                   net[i].req.count <= AvailableWords(net[i].req.selected_lessons)

\* ---- C34 ----
\* the caller has pressed submit with nothing or only blanks in answerInput
EmptySubmit ==
    /\ hist'.call # hist.call
    /\ hist'.call.fn = "submitAnswer"
    /\ Trim(hist'.call.args.input) = ""

\* C34: a manual submit with an empty or blank input is no submission: no
\* request is sent, no answer is recorded in the script or in the store, the
\* index and the session stay, and the question stays open as it was (the
\* quiz screen, submit bound to submitAnswer, answerInput as enabled as
\* before) with a countdown running
C34_EmptySubmitIsNoSubmission ==
    [][EmptySubmit =>
         /\ net' = net
         /\ sessions' = sessions
         /\ state'.answers = state.answers
         /\ state'.currentIndex = state.currentIndex
         /\ state'.sessionId = state.sessionId
         /\ state'.questions = state.questions
         /\ dom' = dom
         /\ dom'.screen = "quizScreen"
         /\ dom'.submitBtn = "submit"
         /\ state'.timerInterval \in intervals']_vars

\* submit was pressed last with blanks on the second question, which is
\* still to answer, its countdown running and nothing in flight
C34_Witness ==
    /\ hist.call.fn = "submitAnswer"
    /\ hist.call.args.input = " "
    /\ dom.screen = "quizScreen"
    /\ state.currentIndex = 1
    /\ Len(state.answers) = 1
    /\ net = <<>>
    /\ ~dom.inputDisabled
    /\ state.timerInterval \in intervals

\* ---- C38 ----
\* the request of a submission fails before the server has handled it
AnswerRequestFails ==
    \E i \in DOMAIN net :
        net[i].kind = "answer" /\ ~net[i].done /\ net' = Drop(net, i)

C37_IndexWithinQuestions ==
    /\ state.currentIndex >= 0
    /\ state.currentIndex <= Len(state.questions)
    /\ (dom.screen = "quizScreen" /\ dom.submitBtn = "submit" /\ state.questions # <<>>)
          => state.currentIndex < Len(state.questions)

\* ---- C36 ----
\* C36: in Training the answer shown belongs to the prompt shown: when the
\* response of a literal-answer request leaves the network while the prompt
\* of another word is on the training screen, its answer is not shown
C36_LateAnswerNotShown ==
    [][\A i \in DOMAIN net :
         (/\ net[i].kind = "question" /\ net[i].done /\ net[i].resp.ok
          /\ net' = Drop(net, i)
          /\ dom.screen = "trainingScreen"
          /\ hist.training.prompt # net[i].resp.body.correct_answer)
         => hist'.training.answer # net[i].resp.body.correct_answer]_vars

\* ---- C39 ----
\* a session-creation request fails, or the response that rejects it arrives
CreateFails ==
    \E i \in DOMAIN net :
        /\ net[i].kind = "create"
        /\ ~net[i].done \/ ~net[i].resp.ok
        /\ net' = Drop(net, i)

\* C39: a session creation that fails or is rejected, be it of startSession,
\* of the training-to-exam transition or of a retake, leaves the screen, the
\* session id, the questions and the word pairs as they are and starts no timer
C39_FailedCreateChangesNothing ==
    [][CreateFails =>
         /\ dom'.screen = dom.screen
         /\ state'.sessionId = state.sessionId
         /\ state'.questions = state.questions
         /\ state'.wordPairs = state.wordPairs
         /\ intervals' = intervals
         /\ state'.timerInterval = state.timerInterval]_vars

\* ---- C35 ----
\* C35: the request retakeExam sends carries exactly the word pairs of the
\* attempt just summarised and lists no word for exclusion; when its response
\* arrives (and is not lost) the exam is over exactly these word pairs, at
\* index 0, with no recorded answers
C35_RetakeOverSamePool ==
    [][/\ (dom.screen = "summaryScreen" /\ Sends(IsExamRequest)) =>
              LET req == net'[Len(net')].req
              IN  /\ Range(req.word_pairs) = hist.summarised.pool
                  /\ req.exclude_correct_words = {}
       /\ \A i \in DOMAIN net :
             (/\ IsExamRequest(net[i]) /\ net[i].done /\ net[i].resp.ok
              /\ net' = Drop(net, i)
              /\ state' # state
              /\ dom.screen = "summaryScreen")
             => /\ dom'.screen = "quizScreen"
                /\ state'.sessionId = net[i].resp.session_id
                /\ state'.sessionId # hist.summarised.sid
                /\ Range(state'.wordPairs) = hist.summarised.pool
                /\ state'.questions = state'.wordPairs
                /\ state'.currentIndex = 0
                /\ state'.answers = <<>>]_vars

\* ---- C40 ----
\* the marks of the group that are active
ActiveOf(group) == {name \in group : trial.kb.activeDiacritics[name]}

\* C40: on the virtual keyboard at most one accent mark and at most one
\* breathing mark is active, and after insertVowelWithDiacritics no diacritic
\* is active and shift is off
C40_OneAccentOneBreathing ==
    /\ Cardinality(ActiveOf(accentMarks)) <= 1
    /\ Cardinality(ActiveOf(breathingMarks)) <= 1
    /\ trial.last = "insertVowelWithDiacritics" =>
          /\ ActiveOf(Range(DiacriticNames)) = {}
          /\ ~trial.kb.shiftMode

\* a capital vowel with a breathing, an accent and the iota subscript has
\* just been inserted
C40_Witness ==
    /\ trial.last = "insertVowelWithDiacritics"
    /\ trial.kb.inserted.parts = <<"roughBreathing", "circumflex", "iotaSubscript">>
    /\ trial.kb.inserted.upper

====
